---- MODULE Spec2Model ----
(***************************************************************************)
(* Model of the document clustering pipeline (clustering.py, config.py,    *)
(* feature_extractor.py), of the steps of run_pipeline around it (main.py) *)
(* and of the tables documents and clusters (database.py).                 *)
(*                                                                         *)
(* Numbers.  Weights and the DBSCAN radius are kept in tenths (0.7 is 7).  *)
(* A feature matrix is a record [num, q, w]: the entry of row i and column *)
(* j is the real number  (w[j]/10) * num[i][j] / sqrt(q[j]).  This holds   *)
(* the output of StandardScaler exactly: for a column x of N samples with  *)
(* sum S and sum of squares T, (x - mean)/std = (N*x - S)/sqrt(N*T - S*S), *)
(* and a column of zero variance is divided by 1.  A raw matrix has q = 1  *)
(* and w = 10 in every column.  Dot products of two rows are rational, so  *)
(* every cosine-distance comparison is decided in integers.                *)
(*                                                                         *)
(* A Python Optional argument is a sequence: <<>> is None, <<v>> is v.     *)
(***************************************************************************)
EXTENDS Integers, Sequences, FiniteSets, TLC

\* ---------------------------------------------------------------- bounds
MaxDocs == 3
MaxVecs == 4
MaxResults == 3
MaxRows == 2
MaxTexts == 3
MaxLoads == 2
MaxThreads == 2
MaxSide == 3
MaxBlocks == 2
MaxPages == 2

\* ------------------------------------------------------- config.py values
CLUSTERING_METHOD == "dbscan"
DBSCAN_EPS == 5
DBSCAN_MIN_SAMPLES == 2
KMEANS_N_CLUSTERS == 10
TEXT_WEIGHT == 7
LAYOUT_WEIGHT == 3

\* ------------------------------------------------------------- utilities
NoneArg == <<>>
Some(v) == <<v>>

Min(a, b) == IF a <= b THEN a ELSE b

Range(s) == {s[i] : i \in 1..Len(s)}

RECURSIVE SumSeq(_)
SumSeq(s) == IF s = <<>> THEN 0 ELSE Head(s) + SumSeq(Tail(s))

RECURSIVE ProdSeq(_)
ProdSeq(s) == IF s = <<>> THEN 1 ELSE Head(s) * ProdSeq(Tail(s))

\* Python's `x or default` on a number: None and 0 are falsy.
OrDefaultNum(x, default) == IF x = <<>> \/ x[1] = 0 THEN default ELSE x[1]

\* Python's `x or default` on a string: None and "" are falsy.
OrDefaultStr(x, default) == IF x = <<>> \/ x[1] = "" THEN default ELSE x[1]

\* ------------------------------------------------------ matrices (numpy)
NoMatrix == [num |-> <<>>, q |-> <<>>, w |-> <<>>]

NRows(M) == Len(M.num)
NCols(M) == Len(M.q)

\* np.array(rows) for integer rows: every column has q = 1, w = 10.
RawMatrix(rows) ==
    LET d == IF rows = <<>> THEN 0 ELSE Len(rows[1])
    IN [num |-> rows, q |-> [j \in 1..d |-> 1], w |-> [j \in 1..d |-> 10]]

\* A mutant of Ragged: only a row shorter than the first is noticed, longer
\* rows being cut to the first row's length.
RaggedOnlyShorter(rows) == \E i \in 1..Len(rows) : Len(rows[i]) < Len(rows[1])

\* Rows of different lengths do not make a 2-D array.
Ragged(rows) == \E i, k \in 1..Len(rows) : Len(rows[i]) # Len(rows[k])

\* ------------------------------------------- StandardScaler (sklearn)
Unfitted == [n |-> 0, sum |-> <<>>, q |-> <<>>]

ColSum(rows, j) == SumSeq([i \in 1..Len(rows) |-> rows[i][j]])
ColSumSq(rows, j) == SumSeq([i \in 1..Len(rows) |-> rows[i][j] * rows[i][j]])

\* A mutant of ScalerFit: partial_fit, the statistics of the earlier fit being
\* carried into the new one when the widths agree.
ScalerPartialFit(old, rows) ==
    LET n == Len(rows)
        d == Len(rows[1])
        carry == old.n > 0 /\ Len(old.sum) = d
        n0 == IF carry THEN old.n ELSE 0
        S(j) == (IF carry THEN old.sum[j] ELSE 0) + ColSum(rows, j)
        T(j) == (IF carry THEN (old.q[j] + old.sum[j] * old.sum[j]) \div old.n ELSE 0)
                + ColSumSq(rows, j)
    IN [n |-> n0 + n,
        sum |-> [j \in 1..d |-> S(j)],
        q |-> [j \in 1..d |-> (n0 + n) * T(j) - S(j) * S(j)]]

\* fit(): _reset() discards the previous statistics, then the column sums and
\* N^2 * variance of X alone are stored.
ScalerFit(old, rows) ==
    LET n == Len(rows)
        d == Len(rows[1])
    IN [n |-> n,
        sum |-> [j \in 1..d |-> ColSum(rows, j)],
        q |-> [j \in 1..d |-> n * ColSumSq(rows, j) - ColSum(rows, j) * ColSum(rows, j)]]

\* transform(): (x - mean_) / scale_, scale_ being 1 for a zero variance.
ScalerTransform(sc, rows) ==
    [num |-> [i \in 1..Len(rows) |-> [j \in 1..Len(sc.q) |-> sc.n * rows[i][j] - sc.sum[j]]],
     q |-> [j \in 1..Len(sc.q) |-> IF sc.q[j] = 0 THEN 1 ELSE sc.q[j]],
     w |-> [j \in 1..Len(sc.q) |-> 10]]

\* fit_transform needs a 2-D array with at least one sample and one feature.
ScalerAccepts(rows) == rows # <<>> /\ ~Ragged(rows) /\ Len(rows[1]) >= 1

\* matrix * weight (weight in tenths)
Scale(M, weight) == [M EXCEPT !.w = [j \in 1..Len(M.w) |-> weight]]

\* A mutant of HStack: rows are paired like zip(), up to the shorter matrix.
HStackTruncating(A, B) ==
    [err |-> "none",
     m |-> [num |-> [i \in 1..Min(NRows(A), NRows(B)) |-> A.num[i] \o B.num[i]],
            q |-> A.q \o B.q,
            w |-> A.w \o B.w]]

\* np.hstack([A, B]) of two 2-D arrays: ValueError unless the row counts agree.
HStack(A, B) ==
    IF NRows(A) # NRows(B)
    THEN [err |-> "ValueError", m |-> NoMatrix]
    ELSE [err |-> "none",
          m |-> [num |-> [i \in 1..NRows(A) |-> A.num[i] \o B.num[i]],
                 q |-> A.q \o B.q,
                 w |-> A.w \o B.w]]

\* -------------------------------------------------- combine_features
\* The outcome of combine_features on the scaler state `sc`:
\* err "none" and the fused matrix, or the exception and no matrix.
\* `scaler` is the scaler state the call leaves behind.
CombineFeatures(sc, text_embeddings, layout_features, text_weight, layout_weight) ==
    LET tw == OrDefaultNum(text_weight, TEXT_WEIGHT)
        lw == OrDefaultNum(layout_weight, LAYOUT_WEIGHT)
    IN  IF Ragged(layout_features)
        THEN [err |-> "ValueError", combined |-> NoMatrix, scaler |-> sc]
        ELSE IF ~ScalerAccepts(text_embeddings)
        THEN [err |-> "ValueError", combined |-> NoMatrix, scaler |-> sc]
        ELSE LET sc1 == ScalerFit(sc, text_embeddings)
                 text_normalized == ScalerTransform(sc1, text_embeddings)
             IN  IF ~ScalerAccepts(layout_features)
                 THEN [err |-> "ValueError", combined |-> NoMatrix, scaler |-> sc1]
                 ELSE LET sc2 == ScalerFit(sc1, layout_features)
                          layout_normalized == ScalerTransform(sc2, layout_features)
                          h == HStack(Scale(text_normalized, tw),
                                      Scale(layout_normalized, lw))
                      IN  [err |-> h.err, combined |-> h.m, scaler |-> sc2]

\* ------------------------------------------ distances (sklearn, cosine)
\* Dot product of rows i and k of M, times 100 * (product of M.q): an integer.
Dot(M, i, k) ==
    LET P == ProdSeq(M.q)
    IN SumSeq([j \in 1..NCols(M) |->
                 M.w[j] * M.w[j] * M.num[i][j] * M.num[k][j] * (P \div M.q[j])])

\* cosine_distances(M)[i][k] <= eps/10.  The diagonal is set to 0; a zero row
\* is left zero by normalize(), so its similarity to any other row is 0 and its
\* distance 1.  Otherwise 1 - dot/(|i||k|) <= eps/10, decided by squaring.
Within(M, i, k, eps) ==
    LET dik == Dot(M, i, k)
        dii == Dot(M, i, i)
        dkk == Dot(M, k, k)
    IN  IF i = k THEN TRUE
        ELSE IF dii = 0 \/ dkk = 0 THEN 10 <= eps
        ELSE /\ dik >= 0
             /\ 100 * dik * dik >= (10 - eps) * (10 - eps) * dii * dkk

\* ------------------------------------------------------ DBSCAN (sklearn)
Neighborhood(M, i) == {k \in 1..NRows(M) : Within(M, i, k, DBSCAN_EPS)}

\* A mutant of CoreSample: the sample itself is not counted as a neighbour.
CoreSampleExcludingSelf(M, i) ==
    Cardinality(Neighborhood(M, i) \ {i}) >= DBSCAN_MIN_SAMPLES

CoreSample(M, i) == Cardinality(Neighborhood(M, i)) >= DBSCAN_MIN_SAMPLES

\* The points the depth-first search started in S reaches: the neighbours of
\* every core sample reached.
RECURSIVE Expand(_, _)
Expand(M, S) ==
    LET T == S \union UNION {Neighborhood(M, c) : c \in {x \in S : CoreSample(M, x)}}
    IN IF T = S THEN S ELSE Expand(M, T)

\* dbscan_inner: samples are visited in index order; an unlabelled core sample
\* starts cluster label_num, which takes every point reached that is still -1.
RECURSIVE DbscanInner(_, _, _, _)
DbscanInner(M, i, labels, label_num) ==
    IF i > NRows(M) THEN labels
    ELSE IF labels[i] # -1 \/ ~CoreSample(M, i)
    THEN DbscanInner(M, i + 1, labels, label_num)
    ELSE LET C == Expand(M, {i})
         IN DbscanInner(M, i + 1,
                [k \in 1..NRows(M) |-> IF k \in C /\ labels[k] = -1
                                        THEN label_num ELSE labels[k]],
                label_num + 1)

DbscanFitPredict(M) == DbscanInner(M, 1, [k \in 1..NRows(M) |-> -1], 0)

\* ------------------------------------------------------ KMeans (sklearn)
DistinctRows(M) == Cardinality({M.num[i] : i \in 1..NRows(M)})

\* The labelings KMeans(n_clusters=k, random_state=42, n_init=10) can return:
\* every row gets the index of its nearest centre, so equal rows share a label
\* (g maps each distinct row to its label); k-means++ seeds min(k, distinct
\* rows) different points and an emptied cluster is relocated, so exactly that
\* many labels are in use.
KMeansOutcomes(M, k) ==
    LET rows == {M.num[i] : i \in 1..NRows(M)}
    IN {[i \in 1..NRows(M) |-> g[M.num[i]]] :
          g \in {h \in [rows -> 0..(k - 1)] :
                    Cardinality({h[r] : r \in rows}) = Min(k, Cardinality(rows))}}

\* KMeans rejects n_clusters < 1 and n_samples < n_clusters.
KMeansAccepts(M, k) == k >= 1 /\ k <= NRows(M)

\* A mutant of ClampClusters: the requested count is used as it is.
ClampClustersOmitted(n_clusters, n_samples) == n_clusters

\* line 114: n_clusters = min(n_clusters, len(features))
ClampClusters(n_clusters, n_samples) == Min(n_clusters, n_samples)

\* ----------------------------------------------------------- cluster()
\* The outcomes of cluster(features, method, n_clusters): the labels, or the
\* exception raised.
Cluster(features, method, n_clusters) ==
    LET m == OrDefaultStr(method, CLUSTERING_METHOD)
    IN  IF m = "dbscan"
        THEN IF NRows(features) = 0
             THEN {[err |-> "ValueError", labels |-> <<>>]}
             ELSE {[err |-> "none", labels |-> DbscanFitPredict(features)]}
        ELSE IF m = "kmeans"
        THEN LET k == ClampClusters(OrDefaultNum(n_clusters, KMEANS_N_CLUSTERS),
                                    NRows(features))
             IN  IF ~KMeansAccepts(features, k)
                 THEN {[err |-> "ValueError", labels |-> <<>>]}
                 ELSE {[err |-> "none", labels |-> L] : L \in KMeansOutcomes(features, k)}
        ELSE {[err |-> "UnsupportedMethod", labels |-> <<>>]}

\* ------------------------------------------------ text embedding model
IsSpace(c) == c = " "

\* str.strip(): leading and trailing whitespace removed.
RECURSIVE LStrip(_)
LStrip(t) == IF t # <<>> /\ IsSpace(Head(t)) THEN LStrip(Tail(t)) ELSE t

RECURSIVE RStrip(_)
RStrip(t) ==
    IF t # <<>> /\ IsSpace(t[Len(t)]) THEN RStrip(SubSeq(t, 1, Len(t) - 1)) ELSE t

Strip(t) == RStrip(LStrip(t))

\* The placeholder text substituted for an empty document.
EmptyDocument == <<"#">>

\* A mutant of ProcessedTexts: `t if t else placeholder`, without strip().
ProcessedTextsEmptyOnly(texts) ==
    [i \in 1..Len(texts) |-> IF texts[i] # <<>> THEN texts[i] ELSE EmptyDocument]

\* line 43: [t if t.strip() else placeholder for t in texts]
ProcessedTexts(texts) ==
    [i \in 1..Len(texts) |-> IF Strip(texts[i]) # <<>> THEN texts[i] ELSE EmptyDocument]

\* SentenceTransformer.encode of one text: a fixed vector per text.
Encode(t) == IF t = EmptyDocument THEN <<0>> ELSE <<Len(t)>>

\* compute_text_embeddings, the model being loaded
ComputeTextEmbeddings(texts) ==
    LET processed_texts == ProcessedTexts(texts)
    IN [i \in 1..Len(processed_texts) |-> Encode(processed_texts[i])]

\* A mutant of LoadEmbeddingModel: a failed load is swallowed and the call
\* goes on without a model.
LoadEmbeddingModelSwallowing(model, available) ==
    IF model # "None" THEN [err |-> "none", model |-> model, loads |-> 0]
    ELSE IF available THEN [err |-> "none", model |-> "loaded", loads |-> 1]
    ELSE [err |-> "none", model |-> "None", loads |-> 0]

\* _load_embedding_model (lines 32-36) on the field value `model`: nothing
\* when a model is set; otherwise SentenceTransformer() is constructed and
\* assigned, or its exception leaves the field None.
LoadEmbeddingModel(model, available) ==
    IF model # "None" THEN [err |-> "none", model |-> model, loads |-> 0]
    ELSE IF available THEN [err |-> "none", model |-> "loaded", loads |-> 1]
    ELSE [err |-> "LoadError", model |-> "None", loads |-> 0]

\* compute_text_embeddings (lines 38-48) as a whole: the load, then the
\* substitution of empty texts, then encode.
EmbedOutcome(model, available, ts) ==
    LET l == LoadEmbeddingModel(model, available)
    IN  IF l.err # "none"
        THEN [err |-> l.err, model |-> l.model, loads |-> l.loads,
              processed |-> <<>>, embeddings |-> <<>>]
        ELSE [err |-> "none", model |-> l.model, loads |-> l.loads,
              processed |-> ProcessedTexts(ts),
              embeddings |-> ComputeTextEmbeddings(ts)]

\* ------------------------------------------- feature_extractor.py
\* A page image file, as the libraries see it:
\*   readable  cv2.imread returns an array (None otherwise)
\*   h, w      image.shape[:2]
\*   dark      the pixels <<row, column>> whose gray value is below 128
\*   ocr       what Image.open and pytesseract do: ok and the text, or not ok
\*   contours  the bounding rectangles of the contours cv2 finds, in its order
\*   lines     the segments cv2.HoughLinesP reports, in runs: `times`
\*             segments with the end points <<x1, y1, x2, y2>> of `seg`,
\*             or shifted copies of it; <<>> when it reports None
\* A number of the layout vector is a fraction <<n, d>>, the value n / d;
\* <<0, 0>> is NaN, what numpy gives for 0 / 0.  The entry of the standard
\* deviation holds its square.
UnreadablePage(path, ocr) ==
    [path |-> path, readable |-> FALSE, h |-> 0, w |-> 0, dark |-> {},
     ocr |-> ocr, contours |-> <<>>, lines |-> <<>>]

NoPage == UnreadablePage(0, [ok |-> FALSE, text |-> <<>>])

\* extract has returned nothing.
NoDoc == <<>>

\* _extract_text (lines 65-73): the stripped OCR text, "" on any exception.
ExtractText(pg) == IF pg.ocr.ok THEN Strip(pg.ocr.text) ELSE <<>>

\* A mutant of TooSmall: a box of exactly 0.1% of the page is dropped too.
TooSmallInclusive(rect, h, w) == 1000 * rect.bw * rect.bh <= w * h

\* line 98: bw * bh < w * h * 0.001
TooSmall(rect, h, w) == 1000 * rect.bw * rect.bh < w * h

\* lines 100-108: the rectangle in coordinates normalized by the image size
Block(rect, h, w) ==
    [x |-> <<rect.x, w>>, y |-> <<rect.y, h>>,
     width |-> <<rect.bw, w>>, height |-> <<rect.bh, h>>,
     area |-> <<rect.bw * rect.bh, w * h>>]

\* lines 94-108: the loop over the contours
RECURSIVE KeptBlocks(_, _, _)
KeptBlocks(contours, h, w) ==
    IF contours = <<>> THEN <<>>
    ELSE IF TooSmall(Head(contours), h, w) THEN KeptBlocks(Tail(contours), h, w)
    ELSE <<Block(Head(contours), h, w)>> \o KeptBlocks(Tail(contours), h, w)

\* line 111: blocks.sort(key=y), a stable sort; all y have the denominator h.
RECURSIVE SortByY(_)
SortByY(blocks) ==
    IF blocks = <<>> THEN <<>>
    ELSE LET front == SortByY(SubSeq(blocks, 1, Len(blocks) - 1))
             b == blocks[Len(blocks)]
             k == Cardinality({i \in 1..Len(front) : front[i].y[1] <= b.y[1]})
         IN SubSeq(front, 1, k) \o <<b>> \o SubSeq(front, k + 1, Len(front))

\* _detect_text_blocks (lines 75-112)
DetectTextBlocks(pg) == SortByY(KeptBlocks(pg.contours, pg.h, pg.w))

\* lines 154, 159-161: the pixels <<row, column>> of the slice
\* gray[i * cell_h : (i + 1) * cell_h, j * cell_w : (j + 1) * cell_w].
GridCell(h, w, rows, cols, i, j) ==
    LET cell_h == h \div rows
        cell_w == w \div cols
    IN {<<r, c>> : r \in (i * cell_h)..(Min((i + 1) * cell_h, h) - 1),
                   c \in (j * cell_w)..(Min((j + 1) * cell_w, w) - 1)}

\* _compute_grid_density (lines 149-166): cells of h // rows by w // cols
\* pixels, row by row; np.sum(cell < 128) / cell.size.
ComputeGridDensity(pg, rows, cols) ==
    LET cell_h == pg.h \div rows
        cell_w == pg.w \div cols
    IN [k \in 1..(rows * cols) |->
          LET i == (k - 1) \div cols
              j == (k - 1) % cols
          IN << Cardinality({px \in pg.dark :
                                /\ px[1] >= i * cell_h /\ px[1] < (i + 1) * cell_h
                                /\ px[2] >= j * cell_w /\ px[2] < (j + 1) * cell_w}),
                cell_h * cell_w >>]

\* min(a, b) of two fractions with positive denominators
MinFrac(a, b) == IF a[1] * b[2] <= b[1] * a[2] THEN a ELSE b

Abs(x) == IF x < 0 THEN -x ELSE x

\* tan(10 degrees) and tan(80 degrees) as fractions, close enough to
\* separate the slopes of the segments of a page.
Tan10 == <<17633, 100000>>
Tan80 == <<567128, 100000>>

\* line 183: angle = |arctan2(dy, dx)| in degrees, a number from 0 to 180
\* (arctan2(0, 0) is 0).  angle < 10 ...
AngleBelow10(dx, dy) ==
    \/ dx = 0 /\ dy = 0
    \/ dx > 0 /\ Abs(dy) * Tan10[2] < Tan10[1] * dx

\* ... and angle > 80: every direction with dx <= 0 but the null one is
\* at 90 degrees or more.
AngleAbove80(dx, dy) ==
    \/ dx = 0 /\ dy # 0
    \/ dx < 0
    \/ dx > 0 /\ Abs(dy) * Tan80[2] > Tan80[1] * dx

\* lines 182-187: the class the segment <<x1, y1, x2, y2>> is counted in
LineClass(seg) ==
    LET dx == seg[3] - seg[1]
        dy == seg[4] - seg[2]
    IN IF AngleBelow10(dx, dy) THEN "horizontal"
       ELSE IF AngleAbove80(dx, dy) THEN "vertical"
       ELSE "none"

\* lines 177-187: the loop over the segments, counting one class
RECURSIVE CountLines(_, _)
CountLines(lines, class) ==
    IF lines = <<>> THEN 0
    ELSE (IF LineClass(Head(lines).seg) = class THEN Head(lines).times ELSE 0)
         + CountLines(Tail(lines), class)

\* _detect_lines (lines 168-193): min(count / 100, 1.0) for either count
DetectLines(pg) ==
    [horizontal |-> MinFrac(<<CountLines(pg.lines, "horizontal"), 100>>, <<1, 1>>),
     vertical |-> MinFrac(<<CountLines(pg.lines, "vertical"), 100>>, <<1, 1>>)]

\* Twice the vertical centre of a block, in pixels: y + height / 2 is this
\* number over 2h.
TwiceCentre(b) == 2 * b.y[1] + b.height[1]

\* A mutant of PositionFeatures: np.mean and np.std without the test for an
\* empty list, np.mean([]) being NaN.
PositionFeaturesUnguarded(text_blocks) ==
    LET n == Len(text_blocks)
        a == [i \in 1..n |-> TwiceCentre(text_blocks[i])]
        den == IF n = 0 THEN 0 ELSE 2 * text_blocks[1].y[2]
    IN << <<SumSeq(a), den * n>>,
          IF n > 1
          THEN << n * SumSeq([i \in 1..n |-> a[i] * a[i]]) - SumSeq(a) * SumSeq(a),
                  n * n * den * den >>
          ELSE <<0, 1>> >>

\* lines 135-140: mean and standard deviation (squared here) of the vertical
\* centres, 0 for the deviation of a single block; 0.5 and 0 without blocks.
PositionFeatures(text_blocks) ==
    LET n == Len(text_blocks)
        a == [i \in 1..n |-> TwiceCentre(text_blocks[i])]
    IN  IF text_blocks # <<>>
        THEN LET den == 2 * text_blocks[1].y[2]
             IN << <<SumSeq(a), den * n>>,
                   IF n > 1
                   THEN << n * SumSeq([i \in 1..n |-> a[i] * a[i]]) - SumSeq(a) * SumSeq(a),
                           n * n * den * den >>
                   ELSE <<0, 1>> >>
        ELSE << <<1, 2>>, <<0, 1>> >>

\* line 126: sum(b["area"]), 0 for no block
TotalArea(text_blocks) ==
    IF text_blocks = <<>> THEN <<0, 1>>
    ELSE << SumSeq([i \in 1..Len(text_blocks) |-> text_blocks[i].area[1]]),
            text_blocks[1].area[2] >>

\* _extract_layout_features (lines 114-147)
ExtractLayoutFeatures(pg, text_blocks) ==
    LET lines == DetectLines(pg)
    IN << <<Len(text_blocks), 1>>, TotalArea(text_blocks) >>
       \o ComputeGridDensity(pg, 3, 3)
       \o PositionFeatures(text_blocks)
       \o << lines.horizontal, lines.vertical >>

\* A mutant of Extract: an exception of the OCR is not caught.
ExtractPropagatingOcrError(pg) ==
    IF ~pg.readable
    THEN [err |-> "ValueError", doc |-> NoDoc, steps |-> <<"imread">>]
    ELSE IF ~pg.ocr.ok
    THEN [err |-> "TesseractError", doc |-> NoDoc, steps |-> <<"imread", "_extract_text">>]
    ELSE LET text_blocks == DetectTextBlocks(pg)
         IN [err |-> "none",
             doc |-> << [pdf_path |-> pg.path, text |-> ExtractText(pg),
                         layout_features |-> ExtractLayoutFeatures(pg, text_blocks),
                         text_blocks |-> text_blocks] >>,
             steps |-> <<"imread", "_extract_text", "_detect_text_blocks",
                         "_extract_layout_features">>]

\* A mutant of Extract: the OCR runs before the image is looked at.
ExtractOcrFirst(pg) ==
    IF ~pg.readable
    THEN [err |-> "ValueError", doc |-> NoDoc, steps |-> <<"_extract_text", "imread">>]
    ELSE LET text_blocks == DetectTextBlocks(pg)
         IN [err |-> "none",
             doc |-> << [pdf_path |-> pg.path, text |-> ExtractText(pg),
                         layout_features |-> ExtractLayoutFeatures(pg, text_blocks),
                         text_blocks |-> text_blocks] >>,
             steps |-> <<"_extract_text", "imread", "_detect_text_blocks",
                         "_extract_layout_features">>]

\* extract (lines 31-63): the exception or the DocumentFeatures, and the
\* stages run on the way.
Extract(pg) ==
    IF ~pg.readable
    THEN [err |-> "ValueError", doc |-> NoDoc, steps |-> <<"imread">>]
    ELSE LET text_blocks == DetectTextBlocks(pg)
         IN [err |-> "none",
             doc |-> << [pdf_path |-> pg.path, text |-> ExtractText(pg),
                         layout_features |-> ExtractLayoutFeatures(pg, text_blocks),
                         text_blocks |-> text_blocks] >>,
             steps |-> <<"imread", "_extract_text", "_detect_text_blocks",
                         "_extract_layout_features">>]

\* extract_batch (lines 195-214): every image is tried; an exception of
\* extract is printed and the image left out.
RECURSIVE ExtractBatch(_)
ExtractBatch(image_paths) ==
    IF image_paths = <<>> THEN <<>>
    ELSE LET r == Extract(Head(image_paths))
         IN (IF r.err = "none" THEN r.doc ELSE <<>>) \o ExtractBatch(Tail(image_paths))

\* --------------------------------------------------- process(), summary
\* A mutant of IsEmptyBatch: the early return is never taken.
IsEmptyBatchNever(doc_features) == FALSE

\* line 139: `if not doc_features`
IsEmptyBatch(doc_features) == doc_features = <<>>

\* A mutant of BuildResults: the last document of the batch is left out.
BuildResultsDroppingLast(doc_features, labels, combined) ==
    [i \in 1..(Len(doc_features) - 1) |->
        [pdf_path |-> doc_features[i].pdf_path,
         cluster_id |-> labels[i],
         combined_vector |-> [num |-> combined.num[i], q |-> combined.q, w |-> combined.w]]]

\* lines 156-164: zip(doc_features, labels, combined) into ClusterResult
BuildResults(doc_features, labels, combined) ==
    [i \in 1..Min(Len(doc_features), Min(Len(labels), NRows(combined))) |->
        [pdf_path |-> doc_features[i].pdf_path,
         cluster_id |-> labels[i],
         combined_vector |-> [num |-> combined.num[i], q |-> combined.q, w |-> combined.w]]]

\* get_cluster_summary: the dict as a function from the cluster ids seen to
\* the list of paths appended so far.
RECURSIVE SummaryFrom(_, _, _)
SummaryFrom(results, i, summary) ==
    IF i > Len(results) THEN summary
    ELSE LET r == results[i]
             s1 == IF r.cluster_id \notin DOMAIN summary
                   THEN [c \in (DOMAIN summary) \union {r.cluster_id} |->
                            IF c = r.cluster_id THEN <<>> ELSE summary[c]]
                   ELSE summary
             s2 == [s1 EXCEPT ![r.cluster_id] = Append(@, r.pdf_path)]
         IN SummaryFrom(results, i + 1, s2)

EmptySummary == [c \in {} |-> <<>>]

\* A mutant of GetClusterSummary: `summary[cid] = [path]` in place of append,
\* each group keeping only the last path it was given.
GetClusterSummaryOverwriting(results) ==
    [c \in {results[i].cluster_id : i \in 1..Len(results)} |->
        LET last == CHOOSE i \in 1..Len(results) :
                        /\ results[i].cluster_id = c
                        /\ \A k \in (i + 1)..Len(results) : results[k].cluster_id # c
        IN <<results[last].pdf_path>>]

GetClusterSummary(results) == SummaryFrom(results, 1, EmptySummary)

\* ------------------------------------------------------------- database
\* A row of documents is [id, filename, filepath, cluster_id, ocr_text,
\* page_count, confidence], a row of clusters [id, name, description,
\* document_count] (database.py lines 266-283); created_at is left out.

\* The bound of the ids given out, and the files: a path and its name.
MaxRowId == 4
Filepaths == {1, 2}
Filename(pdf_path) == <<"pdf", pdf_path>>

\* A mutant of InsertDocument: a plain INSERT into a table whose filepath
\* is not UNIQUE, the row of an earlier insert staying.
InsertDocumentKeepingOld(drows, last_id, args) ==
    [documents |-> drows \union {[id |-> last_id + 1, filename |-> args.filename,
                                 filepath |-> args.filepath,
                                 cluster_id |-> args.cluster_id,
                                 ocr_text |-> args.ocr_text,
                                 page_count |-> args.page_count,
                                 confidence |-> args.confidence]},
     sequence |-> last_id + 1,
     lastrowid |-> last_id + 1]

\* insert_document (lines 450-474): INSERT OR REPLACE.  filepath is UNIQUE
\* (line 269), so a row with the same filepath is deleted first; id is
\* AUTOINCREMENT (line 267), so the new row gets an id never given before.
InsertDocument(drows, last_id, args) ==
    [documents |-> {d \in drows : d.filepath # args.filepath}
                   \union {[id |-> last_id + 1, filename |-> args.filename,
                            filepath |-> args.filepath,
                            cluster_id |-> args.cluster_id,
                            ocr_text |-> args.ocr_text,
                            page_count |-> args.page_count,
                            confidence |-> args.confidence]},
     sequence |-> last_id + 1,
     lastrowid |-> last_id + 1]

\* delete_document (lines 597-600): DELETE ... WHERE id = ?
DeleteDocument(drows, doc_id) == {d \in drows : d.id # doc_id}

\* line 543: the default name, "cluster" in Japanese and the id; a text is
\* a sequence.
ClusterName(cluster_id) == <<"cluster", cluster_id>>

\* update_cluster (lines 530-544): the documents of the cluster are counted
\* and its row is written, in place of the one it had (id is the primary
\* key); `name or ...` gives the default name for None and for "".
UpdateCluster(drows, crows, cluster_id, name, description) ==
    LET count == Cardinality({d \in drows : d.cluster_id = cluster_id})
    IN {c \in crows : c.id # cluster_id}
       \union {[id |-> cluster_id,
                name |-> IF name = NoneArg \/ name = Some(<<>>)
                         THEN ClusterName(cluster_id) ELSE name[1],
                description |-> description,
                document_count |-> count]}

\* lines 553-554: update_cluster for every cluster id selected
RECURSIVE UpdateClusters(_, _, _)
UpdateClusters(drows, crows, cluster_ids) ==
    IF cluster_ids = {} THEN crows
    ELSE LET cluster_id == CHOOSE c \in cluster_ids : TRUE
         IN UpdateClusters(drows, UpdateCluster(drows, crows, cluster_id, NoneArg, NoneArg),
                           cluster_ids \ {cluster_id})

\* update_all_cluster_counts (lines 546-555): the cluster ids are those of
\* SELECT DISTINCT cluster_id FROM documents.
UpdateAllClusterCounts(drows, crows) ==
    UpdateClusters(drows, crows, {d.cluster_id : d \in drows})

\* main.py lines 156-164 (OCR skipped): one insert_document for every pair
\* of a DocumentFeatures and its ClusterResult, with the text of the quick
\* OCR, one page and the confidence 0.
RECURSIVE StoreResults(_, _, _)
StoreResults(drows, last_id, pairs) ==
    IF pairs = <<>> THEN [documents |-> drows, sequence |-> last_id]
    ELSE LET r == InsertDocument(drows, last_id,
                     [filename |-> Filename(Head(pairs).pdf_path),
                      filepath |-> Head(pairs).pdf_path,
                      cluster_id |-> Head(pairs).cluster_id,
                      ocr_text |-> Head(pairs).text,
                      page_count |-> 1,
                      confidence |-> 0])
         IN StoreResults(r.documents, r.sequence, Tail(pairs))

\* ------------------------------------------------------------ input sets
SeqsUpTo(S, n) == UNION {[1..m -> S] : m \in 0..n}

\* The texts of a batch: an empty OCR result and a page with text.
Texts == {<<>>, <<"a">>}
LayoutVectors == {<<0>>, <<1>>}

\* Batches of DocumentFeatures; the i-th document of a batch has path i.
Batches ==
    UNION {[1..m -> [text : Texts, layout_features : LayoutVectors]] : m \in 0..MaxDocs}

DocFeatures(b) ==
    [i \in 1..Len(b) |->
        [pdf_path |-> i, text |-> b[i].text, layout_features |-> b[i].layout_features]]

Methods == {NoneArg, Some("dbscan"), Some("kmeans"), Some(""), Some("hdbscan")}
NClusters == {NoneArg, Some(-1), Some(0), Some(2), Some(5)}
Weights == {NoneArg, Some(-5), Some(0), Some(5), Some(10)}

\* Feature vectors handed to cluster() directly.
Vectors == {<<1, 0>>, <<0, 1>>, <<1, 1>>, <<0, 0>>}
FeatureMatrices == {RawMatrix(rows) : rows \in SeqsUpTo(Vectors, MaxVecs)}

\* Arguments of combine_features called directly.
TextRows == SeqsUpTo({<<0>>, <<1>>}, MaxRows)
LayoutRows == SeqsUpTo({<<0>>, <<1>>, <<0, 1>>}, MaxRows)

\* Lists of ClusterResult handed to get_cluster_summary: distinct documents.
ResultLists ==
    {rs \in SeqsUpTo([pdf_path : 1..MaxResults, cluster_id : -1..1], MaxResults) :
        \A i, k \in 1..Len(rs) : i # k => rs[i].pdf_path # rs[k].pdf_path}

\* ----------------------------------------------------------------- state
VARIABLES
    embedding_model,   \* self.embedding_model: "None" or "loaded"
    scaler,            \* self.scaler: the statistics of its last fit
    op,                \* the method called last
    pc,                \* where process() stands: "idle" when no call is running
    doc_features, method, n_clusters,
    text_embeddings, layout_features, text_weight, layout_weight,
    features, combined, labels, results, summary,
    error,             \* the exception the call raised, or "none"
    model_available,   \* whether SentenceTransformer(EMBEDDING_MODEL) can be built
    instantiations,    \* how many times SentenceTransformer() was constructed
    texts,             \* the argument of compute_text_embeddings
    processed_texts,   \* the list handed to embedding_model.encode
    scaler_reused,     \* the scaler held statistics when fusion began
    thread,            \* the threads inside compute_text_embeddings
    page, steps, doc,  \* extract(): its image, the stages run, what it returned
    pages, docs,       \* extract_batch(): its images and what it returned
    documents,         \* the rows of the table documents
    clusters,          \* the rows of the table clusters
    sequence,          \* the largest id the table documents has given out
    inserted           \* per filepath, the arguments of its last insert_document

vars == <<embedding_model, scaler, op, pc, doc_features, method, n_clusters,
          text_embeddings, layout_features, text_weight, layout_weight,
          features, combined, labels, results, summary, error,
          model_available, instantiations, texts, processed_texts, scaler_reused,
          thread, page, steps, doc, pages, docs,
          documents, clusters, sequence, inserted>>

\* What no call of the clusterer changes.
envVars == <<model_available, thread>>
extractVars == <<page, steps, doc, pages, docs>>
dbVars == <<documents, clusters, sequence, inserted>>

\* __init__ (lines 28-30), no call made yet; the tables _init_db creates
\* (database.py lines 261-290) are empty.
Started ==
    /\ documents = {}
    /\ clusters = {}
    /\ sequence = 0
    /\ inserted = [fp \in Filepaths |-> NoneArg]
    /\ instantiations = 0
    /\ texts = <<>>
    /\ processed_texts = <<>>
    /\ scaler_reused = FALSE
    /\ thread = [t \in 1..MaxThreads |-> [pc |-> "idle", texts |-> <<>>, err |-> "none", out |-> <<>>]]
    /\ page = NoPage
    /\ steps = <<>>
    /\ doc = NoDoc
    /\ pages = <<>>
    /\ docs = <<>>
    /\ embedding_model = "None"
    /\ scaler = Unfitted
    /\ op = "none"
    /\ pc = "idle"
    /\ doc_features = <<>>
    /\ method = NoneArg
    /\ n_clusters = NoneArg
    /\ text_embeddings = <<>>
    /\ layout_features = <<>>
    /\ text_weight = NoneArg
    /\ layout_weight = NoneArg
    /\ features = NoMatrix
    /\ combined = NoMatrix
    /\ labels = <<>>
    /\ results = <<>>
    /\ summary = EmptySummary
    /\ error = "none"

\* The embedding model can be loaded.
Init == Started /\ model_available = TRUE

\* process(), lines 139-147: the empty batch returns []; otherwise the texts
\* are embedded (the model is loaded on first use; a failed load ends the
\* call) and the layout vectors read.
ProcessCall(df, m, n) ==
    /\ pc = "idle"
    /\ op = "none"
    /\ op' = "process"
    /\ doc_features' = df
    /\ method' = m
    /\ n_clusters' = n
    /\ features' = NoMatrix
    /\ combined' = NoMatrix
    /\ labels' = <<>>
    /\ results' = <<>>
    /\ summary' = EmptySummary
    /\ text_weight' = NoneArg
    /\ layout_weight' = NoneArg
    /\ scaler_reused' = FALSE
    /\ UNCHANGED scaler
    /\ UNCHANGED envVars
    /\ UNCHANGED dbVars
    /\ UNCHANGED extractVars
    /\ IF IsEmptyBatch(df)
       THEN /\ pc' = "idle"
            /\ error' = "none"
            /\ texts' = <<>>
            /\ processed_texts' = <<>>
            /\ text_embeddings' = <<>>
            /\ layout_features' = <<>>
            /\ UNCHANGED <<embedding_model, instantiations>>
       ELSE LET e == EmbedOutcome(embedding_model, model_available,
                                  [i \in 1..Len(df) |-> df[i].text])
            IN /\ texts' = [i \in 1..Len(df) |-> df[i].text]
               /\ embedding_model' = e.model
               /\ instantiations' = instantiations + e.loads
               /\ processed_texts' = e.processed
               /\ text_embeddings' = e.embeddings
               /\ error' = e.err
               /\ layout_features' = IF e.err = "none"
                                     THEN [i \in 1..Len(df) |-> df[i].layout_features]
                                     ELSE <<>>
               /\ pc' = IF e.err = "none" THEN "combine" ELSE "idle"

\* A mutant of ProcessCombine: a ClusterResult is created for every fused
\* row at once, before any label is computed.
ProcessCombineBuilding ==
    /\ pc = "combine"
    /\ LET r == CombineFeatures(scaler, text_embeddings, layout_features,
                                text_weight, layout_weight)
       IN /\ scaler' = r.scaler
          /\ combined' = r.combined
          /\ error' = r.err
          /\ pc' = IF r.err = "none" THEN "cluster" ELSE "idle"
          /\ results' = IF r.err = "none"
                        THEN BuildResults(doc_features,
                                          [i \in 1..Len(doc_features) |-> 0], r.combined)
                        ELSE results
    /\ scaler_reused' = (scaler # Unfitted)
    /\ UNCHANGED <<embedding_model, op, doc_features, method, n_clusters,
                   text_embeddings, layout_features, text_weight, layout_weight,
                   features, labels, summary>>
    /\ UNCHANGED <<instantiations, texts, processed_texts>>
    /\ UNCHANGED envVars
    /\ UNCHANGED dbVars
    /\ UNCHANGED extractVars

\* process(), line 150: combine_features with the default weights.
ProcessCombine ==
    /\ pc = "combine"
    /\ LET r == CombineFeatures(scaler, text_embeddings, layout_features,
                                text_weight, layout_weight)
       IN /\ scaler' = r.scaler
          /\ combined' = r.combined
          /\ error' = r.err
          /\ pc' = IF r.err = "none" THEN "cluster" ELSE "idle"
    /\ scaler_reused' = (scaler # Unfitted)
    /\ UNCHANGED <<embedding_model, op, doc_features, method, n_clusters,
                   text_embeddings, layout_features, text_weight, layout_weight,
                   features, labels, results, summary>>
    /\ UNCHANGED <<instantiations, texts, processed_texts>>
    /\ UNCHANGED envVars
    /\ UNCHANGED dbVars
    /\ UNCHANGED extractVars

\* process(), line 153: cluster(combined, method, n_clusters).
ProcessCluster ==
    /\ pc = "cluster"
    /\ \E o \in Cluster(combined, method, n_clusters) :
          /\ labels' = o.labels
          /\ error' = o.err
          /\ pc' = IF o.err = "none" THEN "build" ELSE "idle"
    /\ UNCHANGED <<embedding_model, scaler, op, doc_features, method, n_clusters,
                   text_embeddings, layout_features, text_weight, layout_weight,
                   features, combined, results, summary>>
    /\ UNCHANGED <<instantiations, texts, processed_texts, scaler_reused>>
    /\ UNCHANGED envVars
    /\ UNCHANGED dbVars
    /\ UNCHANGED extractVars

\* process(), lines 156-166: the results are built and returned.
ProcessBuild ==
    /\ pc = "build"
    /\ results' = BuildResults(doc_features, labels, combined)
    /\ pc' = "idle"
    /\ UNCHANGED <<embedding_model, scaler, op, doc_features, method, n_clusters,
                   text_embeddings, layout_features, text_weight, layout_weight,
                   features, combined, labels, summary, error>>
    /\ UNCHANGED <<instantiations, texts, processed_texts, scaler_reused>>
    /\ UNCHANGED envVars
    /\ UNCHANGED dbVars
    /\ UNCHANGED extractVars

\* get_cluster_summary on the results process() returned (main.py line 115).
Summarize ==
    /\ pc = "idle"
    /\ op = "process"
    /\ error = "none"
    /\ op' = "get_cluster_summary"
    /\ summary' = GetClusterSummary(results)
    /\ UNCHANGED <<embedding_model, scaler, pc, doc_features, method, n_clusters,
                   text_embeddings, layout_features, text_weight, layout_weight,
                   features, combined, labels, results, error>>
    /\ UNCHANGED <<instantiations, texts, processed_texts, scaler_reused>>
    /\ UNCHANGED envVars
    /\ UNCHANGED dbVars
    /\ UNCHANGED extractVars

\* get_cluster_summary called with any list of ClusterResult.
SummaryCall(rs) ==
    /\ pc = "idle"
    /\ op = "none"
    /\ op' = "get_cluster_summary"
    /\ results' = rs
    /\ summary' = GetClusterSummary(rs)
    /\ doc_features' = <<>>
    /\ method' = NoneArg
    /\ n_clusters' = NoneArg
    /\ text_embeddings' = <<>>
    /\ layout_features' = <<>>
    /\ text_weight' = NoneArg
    /\ layout_weight' = NoneArg
    /\ features' = NoMatrix
    /\ combined' = NoMatrix
    /\ labels' = <<>>
    /\ error' = "none"
    /\ UNCHANGED <<embedding_model, scaler, pc>>
    /\ texts' = <<>>
    /\ processed_texts' = <<>>
    /\ scaler_reused' = FALSE
    /\ UNCHANGED instantiations
    /\ UNCHANGED envVars
    /\ UNCHANGED dbVars
    /\ UNCHANGED extractVars

\* combine_features called directly.
CombineCall(te, lf, tw, lw) ==
    /\ pc = "idle"
    /\ op = "none"
    /\ op' = "combine_features"
    /\ text_embeddings' = te
    /\ layout_features' = lf
    /\ text_weight' = tw
    /\ layout_weight' = lw
    /\ LET r == CombineFeatures(scaler, te, lf, tw, lw)
       IN /\ scaler' = r.scaler
          /\ combined' = r.combined
          /\ error' = r.err
    /\ doc_features' = <<>>
    /\ method' = NoneArg
    /\ n_clusters' = NoneArg
    /\ features' = NoMatrix
    /\ labels' = <<>>
    /\ results' = <<>>
    /\ summary' = EmptySummary
    /\ UNCHANGED <<embedding_model, pc>>
    /\ texts' = <<>>
    /\ processed_texts' = <<>>
    /\ scaler_reused' = (scaler # Unfitted)
    /\ UNCHANGED instantiations
    /\ UNCHANGED envVars
    /\ UNCHANGED dbVars
    /\ UNCHANGED extractVars

\* cluster called directly.
ClusterCall(f, m, n) ==
    /\ pc = "idle"
    /\ op = "none"
    /\ op' = "cluster"
    /\ features' = f
    /\ method' = m
    /\ n_clusters' = n
    /\ \E o \in Cluster(f, m, n) :
          /\ labels' = o.labels
          /\ error' = o.err
    /\ doc_features' = <<>>
    /\ text_embeddings' = <<>>
    /\ layout_features' = <<>>
    /\ text_weight' = NoneArg
    /\ layout_weight' = NoneArg
    /\ combined' = NoMatrix
    /\ results' = <<>>
    /\ summary' = EmptySummary
    /\ UNCHANGED <<embedding_model, scaler, pc>>
    /\ texts' = <<>>
    /\ processed_texts' = <<>>
    /\ scaler_reused' = FALSE
    /\ UNCHANGED instantiations
    /\ UNCHANGED envVars
    /\ UNCHANGED dbVars
    /\ UNCHANGED extractVars

\* The call has returned (or raised) and its caller lets go of what it got:
\* only the clusterer's own fields stay.
Return ==
    /\ pc = "idle"
    /\ op # "none"
    /\ op' = "none"
    /\ doc_features' = <<>>
    /\ method' = NoneArg
    /\ n_clusters' = NoneArg
    /\ text_embeddings' = <<>>
    /\ layout_features' = <<>>
    /\ text_weight' = NoneArg
    /\ layout_weight' = NoneArg
    /\ features' = NoMatrix
    /\ combined' = NoMatrix
    /\ labels' = <<>>
    /\ results' = <<>>
    /\ summary' = EmptySummary
    /\ error' = "none"
    /\ UNCHANGED <<embedding_model, scaler, pc>>
    /\ texts' = <<>>
    /\ processed_texts' = <<>>
    /\ scaler_reused' = FALSE
    /\ page' = NoPage
    /\ steps' = <<>>
    /\ doc' = NoDoc
    /\ pages' = <<>>
    /\ docs' = <<>>
    /\ UNCHANGED instantiations
    /\ UNCHANGED envVars
    /\ UNCHANGED dbVars

\* A caller starts a call only when no call is running.
Ready == pc = "idle" /\ op = "none"

Process ==
    /\ Ready
    /\ \E b \in Batches, m \in Methods, n \in NClusters : ProcessCall(DocFeatures(b), m, n)

\* The pipeline: process() and the summary of its results.
Next == Process \/ ProcessCombine \/ ProcessCluster \/ ProcessBuild \/ Summarize \/ Return

Spec == Init /\ [][Next]_vars

\* cluster() alone, on any feature matrix.
ClusterAny ==
    /\ Ready
    /\ \E f \in FeatureMatrices, m \in Methods, n \in NClusters : ClusterCall(f, m, n)

NextCluster == ClusterAny \/ Return

SpecCluster == Init /\ [][NextCluster]_vars

\* combine_features() alone, on any pair of matrices and weights.
CombineAny ==
    /\ Ready
    /\ \E te \in TextRows, lf \in LayoutRows, tw \in Weights, lw \in Weights :
          CombineCall(te, lf, tw, lw)

NextCombine == CombineAny \/ Return

SpecCombine == Init /\ [][NextCombine]_vars

\* get_cluster_summary() alone, on any list of results.
SummaryAny == Ready /\ \E rs \in ResultLists : SummaryCall(rs)

NextSummary == SummaryAny \/ Return

SpecSummary == Init /\ [][NextSummary]_vars

\* process() called with DocumentFeatures built by hand: the layout vectors
\* of a batch may differ in length.
AnyLayoutVectors == {<<0>>, <<1>>, <<0, 1>>, <<1, 0>>}

HandBuiltBatches ==
    UNION {[1..m -> [text : Texts, layout_features : AnyLayoutVectors]] : m \in 0..MaxDocs}

ProcessHandBuilt ==
    /\ Ready
    /\ \E b \in HandBuiltBatches, m \in {NoneArg, Some("kmeans")} :
          ProcessCall(DocFeatures(b), m, NoneArg)

NextFusion == ProcessHandBuilt \/ ProcessCombine \/ ProcessCluster \/ ProcessBuild \/ Return

SpecFusion == Init /\ [][NextFusion]_vars

\* compute_text_embeddings(ts), lines 38-48: what the call does.
Embed(ts) ==
    /\ op' = "compute_text_embeddings"
    /\ texts' = ts
    /\ LET e == EmbedOutcome(embedding_model, model_available, ts)
       IN /\ embedding_model' = e.model
          /\ instantiations' = instantiations + e.loads
          /\ processed_texts' = e.processed
          /\ text_embeddings' = e.embeddings
          /\ error' = e.err
    /\ doc_features' = <<>>
    /\ method' = NoneArg
    /\ n_clusters' = NoneArg
    /\ layout_features' = <<>>
    /\ text_weight' = NoneArg
    /\ layout_weight' = NoneArg
    /\ features' = NoMatrix
    /\ combined' = NoMatrix
    /\ labels' = <<>>
    /\ results' = <<>>
    /\ summary' = EmptySummary
    /\ scaler_reused' = FALSE
    /\ UNCHANGED <<scaler, pc>>
    /\ UNCHANGED envVars
    /\ UNCHANGED dbVars

\* compute_text_embeddings called directly, by one thread.
EmbedCall(ts) ==
    /\ pc = "idle"
    /\ op = "none"
    /\ Embed(ts)
    /\ UNCHANGED extractVars

\* DocumentClusterer(): a new clusterer takes the place of the one in use
\* (lines 28-30); the count of constructed models is the process's.
Construct ==
    /\ Ready
    /\ instantiations < MaxLoads
    /\ embedding_model' = "None"
    /\ scaler' = Unfitted
    /\ UNCHANGED <<op, pc, doc_features, method, n_clusters, text_embeddings,
                   layout_features, text_weight, layout_weight, features, combined,
                   labels, results, summary, error, instantiations, texts,
                   processed_texts, scaler_reused>>
    /\ UNCHANGED envVars
    /\ UNCHANGED dbVars
    /\ UNCHANGED extractVars

\* The model files become unavailable, or available again, between calls.
ModelAvailability ==
    /\ Ready
    /\ model_available' = ~model_available
    /\ UNCHANGED <<embedding_model, scaler, op, pc, doc_features, method, n_clusters,
                   text_embeddings, layout_features, text_weight, layout_weight,
                   features, combined, labels, results, summary, error,
                   instantiations, texts, processed_texts, scaler_reused, thread>>
    /\ UNCHANGED extractVars
    /\ UNCHANGED dbVars

\* Texts handed to compute_text_embeddings: empty, blank, plain, padded.
EmbedTexts == {<<>>, <<" ">>, <<"a">>, <<" ", "a">>, <<"a", " ">>}

EmbedAny == Ready /\ \E ts \in SeqsUpTo(EmbedTexts, MaxTexts) : EmbedCall(ts)

\* process(doc_features), the method and the count left to their defaults.
ProcessDefault == Ready /\ \E b \in Batches : ProcessCall(DocFeatures(b), NoneArg, NoneArg)

\* Embedding over the life of one process: clusterers are constructed, texts
\* embedded and batches processed, the model being loadable or not.
NextEmbed ==
    \/ Construct \/ ModelAvailability \/ EmbedAny \/ ProcessDefault
    \/ ProcessCombine \/ ProcessCluster \/ ProcessBuild \/ Return

SpecEmbed == Init /\ [][NextEmbed]_vars

\* Fusion again and again on one clusterer: combine_features called directly
\* and through process, in any order.
NextNormalize ==
    CombineAny \/ ProcessDefault \/ ProcessCombine \/ ProcessCluster \/ ProcessBuild \/ Return

SpecNormalize == Init /\ [][NextNormalize]_vars

\* ------------------------------ compute_text_embeddings, several threads
\* What a thread inside compute_text_embeddings leaves alone.
singleCallVars ==
    <<scaler, op, pc, doc_features, method, n_clusters, text_embeddings,
      layout_features, text_weight, layout_weight, features, combined, labels,
      results, summary, error, model_available, texts, processed_texts,
      scaler_reused, page, steps, doc, pages, docs,
      documents, clusters, sequence, inserted>>

Threads == 1..MaxThreads

\* Thread t calls compute_text_embeddings(ts) on the shared clusterer.
ThreadCall(t) ==
    /\ thread[t].pc = "idle"
    /\ \E ts \in SeqsUpTo(Texts, 1) :
          thread' = [thread EXCEPT ![t] = [pc |-> "check", texts |-> ts, err |-> "none", out |-> <<>>]]
    /\ UNCHANGED <<embedding_model, instantiations>>
    /\ UNCHANGED singleCallVars

\* line 34: `if self.embedding_model is None`
ThreadCheck(t) ==
    /\ thread[t].pc = "check"
    /\ thread' = [thread EXCEPT ![t].pc =
                     IF embedding_model = "None" THEN "construct" ELSE "encode"]
    /\ UNCHANGED <<embedding_model, instantiations>>
    /\ UNCHANGED singleCallVars

\* line 36, right-hand side: SentenceTransformer(Config.EMBEDDING_MODEL)
ThreadConstruct(t) ==
    /\ thread[t].pc = "construct"
    /\ IF model_available
       THEN /\ instantiations' = instantiations + 1
            /\ thread' = [thread EXCEPT ![t].pc = "assign"]
       ELSE /\ thread' = [thread EXCEPT ![t].pc = "done", ![t].err = "LoadError"]
            /\ UNCHANGED instantiations
    /\ UNCHANGED embedding_model
    /\ UNCHANGED singleCallVars

\* line 36, assignment: self.embedding_model = <the model just built>
ThreadAssign(t) ==
    /\ thread[t].pc = "assign"
    /\ embedding_model' = "loaded"
    /\ thread' = [thread EXCEPT ![t].pc = "encode"]
    /\ UNCHANGED instantiations
    /\ UNCHANGED singleCallVars

\* lines 43-48: self.embedding_model.encode(processed_texts)
ThreadEncode(t) ==
    /\ thread[t].pc = "encode"
    /\ thread' = IF embedding_model = "None"
                 THEN [thread EXCEPT ![t].pc = "done", ![t].err = "AttributeError"]
                 ELSE [thread EXCEPT ![t].pc = "done",
                                     ![t].out = ComputeTextEmbeddings(thread[t].texts)]
    /\ UNCHANGED <<embedding_model, instantiations>>
    /\ UNCHANGED singleCallVars

\* The caller has its embeddings (or the exception).
ThreadReturn(t) ==
    /\ thread[t].pc = "done"
    /\ thread' = [thread EXCEPT ![t] = [pc |-> "idle", texts |-> <<>>, err |-> "none", out |-> <<>>]]
    /\ UNCHANGED <<embedding_model, instantiations>>
    /\ UNCHANGED singleCallVars

NextThreads ==
    \E t \in Threads :
        \/ ThreadCall(t) \/ ThreadCheck(t) \/ ThreadConstruct(t)
        \/ ThreadAssign(t) \/ ThreadEncode(t) \/ ThreadReturn(t)

SpecThreads == Init /\ [][NextThreads]_vars

\* ------------------------------------------------ feature extraction
\* What no call of the extractor changes.
clustererVars ==
    <<embedding_model, scaler, pc, doc_features, method, n_clusters,
      text_embeddings, layout_features, text_weight, layout_weight, features,
      combined, labels, results, summary, instantiations, texts,
      processed_texts, scaler_reused>>

\* Image shapes <<h, w>>: small ones, one of more than 1000 pixels, one of
\* exactly 1000 pixels, where a single pixel is 0.1% of the page, and one
\* with room for segments of 100 pixels.
LargeShape == <<40, 30>>
ThresholdShape == <<40, 25>>
LineShape == <<120, 110>>
Shapes ==
    {<<h, w>> : h \in 1..MaxSide, w \in 1..MaxSide}
    \union {LargeShape, ThresholdShape, LineShape}

\* The dark pixels of a page: none, the top left pixel, the top row, the
\* left column, or all of them (none or one pixel on the large shapes).
DarkSets(h, w) ==
    IF <<h, w>> \in {LargeShape, ThresholdShape, LineShape} THEN {{}, {<<0, 0>>}}
    ELSE { {}, {<<0, 0>>},
           {<<0, c>> : c \in 0..(w - 1)},
           {<<r, 0>> : r \in 0..(h - 1)},
           {<<r, c>> : r \in 0..(h - 1), c \in 0..(w - 1)} }

\* What cv2.findContours and boundingRect report is not computed here: none
\* on a page with no dark pixel, otherwise any list of these rectangles.
ContourLists(h, w, dark) ==
    IF dark = {} THEN {<<>>}
    ELSE SeqsUpTo({[x |-> 0, y |-> 0, bw |-> w, bh |-> h],
                   [x |-> 0, y |-> 0, bw |-> 1, bh |-> 1],
                   [x |-> 0, y |-> h - 1, bw |-> w, bh |-> 1]}, MaxBlocks)

OcrFails == [ok |-> FALSE, text |-> <<>>]
OcrOutcomes == {OcrFails, [ok |-> TRUE, text |-> <<>>], [ok |-> TRUE, text |-> <<" ", "a">>]}

\* What cv2.HoughLinesP reports is not computed here.  Its segments are at
\* least 100 pixels long (minLineLength), so only the page with room for
\* them has any: level and upright ones, a slightly sloping one, a level
\* one reported from right to left, a diagonal and one sloping by 11 degrees.
Run(seg, times) == [seg |-> seg, times |-> times]

LineLists(h, w) ==
    IF <<h, w>> # LineShape THEN {<<>>}
    ELSE { <<>>,
           << Run(<<0, 0, 100, 0>>, 50), Run(<<0, 0, 0, 100>>, 250) >>,
           << Run(<<0, 0, 100, 5>>, 100) >>,
           << Run(<<100, 7, 0, 7>>, 1) >>,
           << Run(<<0, 0, 100, 100>>, 1), Run(<<0, 0, 100, 20>>, 1) >> }

ReadablePage(path, sh, dark, ocr, contours, lines) ==
    [path |-> path, readable |-> TRUE, h |-> sh[1], w |-> sh[2], dark |-> dark,
     ocr |-> ocr, contours |-> contours, lines |-> lines]

\* The image files extract is called on, `path` being their name.
Pages(path) ==
    {UnreadablePage(path, o) : o \in OcrOutcomes}
    \union UNION {UNION {{ReadablePage(path, sh, d, o, c, g) :
                            o \in OcrOutcomes, c \in ContourLists(sh[1], sh[2], d),
                            g \in LineLists(sh[1], sh[2])} :
                         d \in DarkSets(sh[1], sh[2])} :
                  sh \in Shapes}

\* The pages of a batch: unreadable, blank with text, blank with failing
\* OCR, and an inked page; the i-th page of a batch has path i.
BatchPages(path) ==
    { UnreadablePage(path, [ok |-> TRUE, text |-> <<"a">>]),
      ReadablePage(path, <<3, 3>>, {}, [ok |-> TRUE, text |-> <<"a">>], <<>>, <<>>),
      ReadablePage(path, <<3, 3>>, {}, OcrFails, <<>>, <<>>),
      ReadablePage(path, <<3, 3>>, {<<1, 1>>}, [ok |-> TRUE, text |-> <<>>],
                   <<[x |-> 0, y |-> 0, bw |-> 3, bh |-> 3]>>, <<>>) }

PageBatches ==
    UNION {{b \in [1..m -> UNION {BatchPages(i) : i \in 1..m}] :
               \A i \in 1..m : b[i].path = i} : m \in 0..MaxPages}

\* extract(image_path)
ExtractCall(pg) ==
    /\ pc = "idle"
    /\ op = "none"
    /\ op' = "extract"
    /\ page' = pg
    /\ LET r == Extract(pg)
       IN /\ doc' = r.doc
          /\ steps' = r.steps
          /\ error' = r.err
    /\ UNCHANGED <<pages, docs>>
    /\ UNCHANGED clustererVars
    /\ UNCHANGED envVars
    /\ UNCHANGED dbVars

\* extract_batch(image_paths)
ExtractBatchCall(ps) ==
    /\ pc = "idle"
    /\ op = "none"
    /\ op' = "extract_batch"
    /\ pages' = ps
    /\ docs' = ExtractBatch(ps)
    /\ error' = "none"
    /\ UNCHANGED <<page, steps, doc>>
    /\ UNCHANGED clustererVars
    /\ UNCHANGED envVars
    /\ UNCHANGED dbVars

\* clustering.py lines 143-144: the texts of the documents extract_batch
\* returned are embedded, as process does with the batch it is given.
EmbedExtracted ==
    /\ pc = "idle"
    /\ op = "extract_batch"
    /\ docs # <<>>
    /\ Embed([i \in 1..Len(docs) |-> docs[i].text])
    /\ UNCHANGED extractVars

ExtractAny == Ready /\ \E pg \in Pages(1) : ExtractCall(pg)

ExtractBatchAny == Ready /\ \E ps \in PageBatches : ExtractBatchCall(ps)

NextExtract == ExtractAny \/ ExtractBatchAny \/ EmbedExtracted \/ Return

SpecExtract == Init /\ [][NextExtract]_vars

\* Every operation of the clusterer, in any order.
NextApi == Next \/ ClusterAny \/ CombineAny \/ SummaryAny

SpecApi == Init /\ [][NextApi]_vars

\* ---------------------------------------------------------- run_pipeline
\* main.py line 103: "kmeans" if n_clusters else "dbscan"; n_clusters is
\* args.clusters (lines 214-219, 236), None or any integer.
PipelineMethod(count) ==
    IF count # NoneArg /\ count[1] # 0 THEN "kmeans" ELSE "dbscan"

\* run_pipeline, lines 97-107: with at least one extracted document, the
\* batch is clustered by process() and the summary is printed.
RunPipelineCluster ==
    /\ Ready
    /\ \E b \in Batches \ {<<>>}, count \in NClusters :
          ProcessCall(DocFeatures(b), Some(PipelineMethod(count)), count)

\* A mutant of PrintClusterSummary: the results are taken off the list as
\* they are grouped.
PrintClusterSummaryConsuming ==
    /\ pc = "idle"
    /\ op = "process"
    /\ error = "none"
    /\ op' = "print_cluster_summary"
    /\ summary' = GetClusterSummary(results)
    /\ results' = <<>>
    /\ UNCHANGED <<embedding_model, scaler, pc, doc_features, method, n_clusters,
                   text_embeddings, layout_features, text_weight, layout_weight,
                   features, combined, labels,  error>>
    /\ UNCHANGED <<instantiations, texts, processed_texts, scaler_reused>>
    /\ UNCHANGED envVars
    /\ UNCHANGED dbVars
    /\ UNCHANGED extractVars

\* print_cluster_summary (clustering.py lines 185-197) on the results of
\* process (main.py line 107): it calls get_cluster_summary.
PrintClusterSummary ==
    /\ pc = "idle"
    /\ op = "process"
    /\ error = "none"
    /\ op' = "print_cluster_summary"
    /\ summary' = GetClusterSummary(results)
    /\ UNCHANGED <<embedding_model, scaler, pc, doc_features, method, n_clusters,
                   text_embeddings, layout_features, text_weight, layout_weight,
                   features, combined, labels, results, error>>
    /\ UNCHANGED <<instantiations, texts, processed_texts, scaler_reused>>
    /\ UNCHANGED envVars
    /\ UNCHANGED dbVars
    /\ UNCHANGED extractVars

\* main.py line 115: get_cluster_summary on the same results once more.
RunPipelineSummary ==
    /\ pc = "idle"
    /\ op = "print_cluster_summary"
    /\ op' = "get_cluster_summary"
    /\ summary' = GetClusterSummary(results)
    /\ UNCHANGED <<embedding_model, scaler, pc, doc_features, method, n_clusters,
                   text_embeddings, layout_features, text_weight, layout_weight,
                   features, combined, labels, results, error>>
    /\ UNCHANGED <<instantiations, texts, processed_texts, scaler_reused>>
    /\ UNCHANGED envVars
    /\ UNCHANGED dbVars
    /\ UNCHANGED extractVars

NextPipeline ==
    \/ RunPipelineCluster
    \/ ProcessCombine \/ ProcessCluster \/ ProcessBuild
    \/ PrintClusterSummary \/ RunPipelineSummary \/ Return

SpecPipeline == Init /\ [][NextPipeline]_vars

\* ------------------------------------------------------- database calls
\* The calls of the database are made one after another, between the
\* calls of the clusterer and the extractor.
DbOps == {"insert_document", "delete_document", "update_all_cluster_counts",
          "run_pipeline"}
DbReady == pc = "idle" /\ op \in {"none"} \union DbOps

ClusterIds == {-1, 0, 1}

\* What is stored with a document: the defaults of insert_document, or a
\* text of two pages.
DocumentContents ==
    { [ocr_text |-> <<>>, page_count |-> 1, confidence |-> 0],
      [ocr_text |-> <<"a">>, page_count |-> 2, confidence |-> 9] }

InsertArgs ==
    { [filename |-> Filename(fp), filepath |-> fp, cluster_id |-> c,
       ocr_text |-> x.ocr_text, page_count |-> x.page_count,
       confidence |-> x.confidence] :
      fp \in Filepaths, c \in ClusterIds, x \in DocumentContents }

\* The documents of a run with their cluster and their text: the files of
\* a run are distinct.
StoredPairs ==
    {ps \in SeqsUpTo([pdf_path : Filepaths, cluster_id : ClusterIds, text : Texts],
                      Cardinality(Filepaths)) :
        /\ ps # <<>>
        /\ \A i, k \in 1..Len(ps) : i # k => ps[i].pdf_path # ps[k].pdf_path}

\* insert_document(filename, filepath, cluster_id, ocr_text, page_count,
\* confidence)
InsertDocumentCall(args) ==
    /\ DbReady
    /\ sequence < MaxRowId
    /\ op' = "insert_document"
    /\ LET r == InsertDocument(documents, sequence, args)
       IN /\ documents' = r.documents
          /\ sequence' = r.sequence
    /\ inserted' = [inserted EXCEPT ![args.filepath] = Some(args)]
    /\ UNCHANGED clusters
    /\ UNCHANGED <<clustererVars, extractVars, envVars, error>>

\* delete_document(doc_id)
DeleteDocumentCall(doc_id) ==
    /\ DbReady
    /\ op' = "delete_document"
    /\ documents' = DeleteDocument(documents, doc_id)
    /\ UNCHANGED <<clusters, sequence, inserted>>
    /\ UNCHANGED <<clustererVars, extractVars, envVars, error>>

\* update_all_cluster_counts()
UpdateAllClusterCountsCall ==
    /\ DbReady
    /\ op' = "update_all_cluster_counts"
    /\ clusters' = UpdateAllClusterCounts(documents, clusters)
    /\ UNCHANGED <<documents, sequence, inserted>>
    /\ UNCHANGED <<clustererVars, extractVars, envVars, error>>

\* run_pipeline with the OCR skipped, main.py lines 152-167: the documents
\* of the run are stored and the counts of the clusters updated.
RunPipelineStore(pairs) ==
    /\ DbReady
    /\ sequence + Len(pairs) <= MaxRowId
    /\ op' = "run_pipeline"
    /\ LET r == StoreResults(documents, sequence, pairs)
       IN /\ documents' = r.documents
          /\ sequence' = r.sequence
          /\ clusters' = UpdateAllClusterCounts(r.documents, clusters)
    /\ inserted' =
          [fp \in Filepaths |->
              IF \E i \in 1..Len(pairs) : pairs[i].pdf_path = fp
              THEN LET i == CHOOSE i \in 1..Len(pairs) : pairs[i].pdf_path = fp
                   IN Some([filename |-> Filename(fp), filepath |-> fp,
                            cluster_id |-> pairs[i].cluster_id,
                            ocr_text |-> pairs[i].text,
                            page_count |-> 1, confidence |-> 0])
              ELSE inserted[fp]]
    /\ UNCHANGED <<clustererVars, extractVars, envVars, error>>

InsertAny == \E args \in InsertArgs : InsertDocumentCall(args)

DeleteAny == \E doc_id \in 1..MaxRowId : DeleteDocumentCall(doc_id)

RunPipelineStoreAny == \E pairs \in StoredPairs : RunPipelineStore(pairs)

NextDb == InsertAny \/ DeleteAny \/ UpdateAllClusterCountsCall \/ RunPipelineStoreAny

SpecDb == Init /\ [][NextDb]_vars

\* ------------------------------------------------------------------ claims
\* The strategy cluster() runs for the method argument of the call.
EffectiveMethod == OrDefaultStr(method, CLUSTERING_METHOD)

ProcessReturned == op = "process" /\ pc = "idle"

RowOf(M, i) == [num |-> M.num[i], q |-> M.q, w |-> M.w]

\* C1: process on a non-empty batch, with either strategy and a cluster count
\* that is absent or not negative, returns one ClusterResult per document:
\* the i-th result has the i-th document's path, the i-th label and the i-th
\* row of the fused matrix.
C1_OneResultPerDocumentInOrder ==
    ( /\ ProcessReturned
      /\ doc_features # <<>>
      /\ EffectiveMethod \in {"dbscan", "kmeans"}
      /\ (n_clusters = NoneArg \/ n_clusters[1] >= 0) )
    => /\ error = "none"
       /\ Len(results) = Len(doc_features)
       /\ Len(labels) = Len(doc_features)
       /\ NRows(combined) = Len(doc_features)
       /\ \A i \in 1..Len(doc_features) :
             /\ results[i].pdf_path = doc_features[i].pdf_path
             /\ results[i].cluster_id = labels[i]
             /\ results[i].combined_vector = RowOf(combined, i)

C1_Witness ==
    /\ ProcessReturned
    /\ error = "none"
    /\ Len(doc_features) = 3
    /\ Len(results) = 3
    /\ results[1].cluster_id # results[3].cluster_id
    /\ results[1].combined_vector # results[3].combined_vector

\* C2: process on the empty list returns the empty list and raises nothing,
\* whatever the method and n_clusters arguments are.
C2_EmptyBatchReturnsEmptyList ==
    (op = "process" /\ doc_features = <<>>)
    => (pc = "idle" /\ error = "none" /\ results = <<>>)

C2_Witness ==
    /\ ProcessReturned
    /\ doc_features = <<>>
    /\ method = Some("hdbscan")
    /\ n_clusters = Some(-1)
    /\ results = <<>>
    /\ error = "none"

\* The positions of path p in the group of cluster c.
PlacesIn(c, p) == {a \in 1..Len(summary[c]) : summary[c][a] = p}

\* The position in `results` of the document with path p.
ResultIndex(p) == CHOOSE i \in 1..Len(results) : results[i].pdf_path = p

C4_UnsupportedMethodAlwaysFails ==
    (method # NoneArg /\ method[1] \notin {"dbscan", "kmeans"})
    => /\ (op = "cluster" /\ NRows(features) >= 1)
             => (error = "UnsupportedMethod" /\ labels = <<>>)
       /\ op = "process" => (results = <<>> /\ labels = <<>>)
       /\ (ProcessReturned /\ doc_features # <<>>) => error = "UnsupportedMethod"

ClusterReturned == op = "cluster" /\ pc = "idle"

AllRowsEqual(M) == \A i, k \in 1..NRows(M) : M.num[i] = M.num[k]

\* C5 (as claimed): with kmeans, N >= 1 vectors and any requested n_clusters,
\* cluster does not fail and makes exactly k = min(requested, N) groups with
\* labels in 0..k-1; a request above N gives N distinct labels 0..N-1.
C5_AnyRequestGivesExactlyKGroups ==
    ( /\ ClusterReturned
      /\ EffectiveMethod = "kmeans"
      /\ NRows(features) >= 1
      /\ n_clusters # NoneArg )
    => LET k == Min(n_clusters[1], NRows(features))
       IN /\ error = "none"
          /\ Len(labels) = NRows(features)
          /\ Range(labels) = 0..(k - 1)
          /\ n_clusters[1] > NRows(features) => Range(labels) = 0..(NRows(features) - 1)

\* The count KMeans is asked for: None and 0 both mean the configured default.
RequestedClusters == OrDefaultNum(n_clusters, KMEANS_N_CLUSTERS)

\* C5 (amended): with kmeans, N >= 1 vectors and a requested n_clusters that
\* is absent or not negative (absent and 0 both meaning the default 10),
\* cluster does not fail, every vector gets a label in 0..k-1 for
\* k = min(requested, N), never -1, and the labels in use are as many as
\* min(k, number of distinct vectors): N pairwise distinct vectors with a
\* request of N or more get the N labels 0..N-1.
C5_ClampedLabelsWithinK ==
    ( /\ ClusterReturned
      /\ EffectiveMethod = "kmeans"
      /\ NRows(features) >= 1
      /\ (n_clusters = NoneArg \/ n_clusters[1] >= 0) )
    => LET N == NRows(features)
           k == Min(RequestedClusters, N)
       IN /\ error = "none"
          /\ Len(labels) = N
          /\ \A i \in 1..N : labels[i] \in 0..(k - 1)
          /\ Cardinality(Range(labels)) = Min(k, DistinctRows(features))
          /\ (RequestedClusters >= N /\ DistinctRows(features) = N)
                => Range(labels) = 0..(N - 1)

C5_Witness ==
    /\ ClusterReturned
    /\ method = Some("kmeans")
    /\ n_clusters = Some(5)
    /\ NRows(features) = 3
    /\ error = "none"
    /\ Range(labels) = 0..2

\* C6 (as claimed): with dbscan, a batch of at least DBSCAN_MIN_SAMPLES fused
\* vectors that are all identical gets the label 0 for every vector; so does
\* the batch process builds from identical documents.
C6_IdenticalVectorsAllLabelledZero ==
    /\ ( /\ ClusterReturned
         /\ EffectiveMethod = "dbscan"
         /\ NRows(features) >= DBSCAN_MIN_SAMPLES
         /\ AllRowsEqual(features) )
       => (error = "none" /\ labels = [i \in 1..NRows(features) |-> 0])
    /\ ( /\ ProcessReturned
         /\ EffectiveMethod = "dbscan"
         /\ Len(doc_features) >= DBSCAN_MIN_SAMPLES
         /\ AllRowsEqual(combined) )
       => ( /\ error = "none"
            /\ Len(results) = Len(doc_features)
            /\ \A i \in 1..Len(results) : results[i].cluster_id = 0 )

\* near[i]: the rows of the clustered matrix within the radius of row i.
NearSets == [i \in 1..NRows(features) |->
                {k \in 1..NRows(features) : Within(features, i, k, DBSCAN_EPS)}]

\* The rows joined to a row of S by a chain of rows, each within the radius
\* of the next.
RECURSIVE ChainFrom(_, _)
ChainFrom(near, S) ==
    LET T == S \union UNION {near[x] : x \in S}
    IN IF T = S THEN S ELSE ChainFrom(near, T)

\* C7: with dbscan every vector gets one label, none below -1; a vector
\* farther than the radius from every other vector gets -1; the other labels
\* are exactly 0..k-1, one per group of vectors chained within the radius
\* (a vector with a neighbour is a core sample, DBSCAN_MIN_SAMPLES being 2).
C7_DensityLabelsNoiseAndContiguous ==
    (ClusterReturned /\ EffectiveMethod = "dbscan" /\ NRows(features) >= 1)
    => \A near \in {NearSets} :
       LET N == NRows(features)
           used == Range(labels) \ {-1}
       IN /\ error = "none"
          /\ Len(labels) = N
          /\ \A i \in 1..N : labels[i] >= -1
          /\ \A i \in 1..N : (near[i] = {i}) <=> labels[i] = -1
          /\ used = 0..(Cardinality(used) - 1)
          /\ \A i \in 1..N : \A chain \in {ChainFrom(near, {i})} :
                \A k \in 1..N :
                   (labels[i] # -1 /\ labels[k] # -1)
                      => (labels[i] = labels[k] <=> k \in chain)

C7_Witness ==
    /\ ClusterReturned
    /\ EffectiveMethod = "dbscan"
    /\ error = "none"
    /\ Range(labels) = {-1, 0}
    /\ \E i, k \in 1..Len(labels) :
          labels[i] = labels[k] /\ labels[i] # -1 /\ k \notin NearSets[i]

CombineReturned == op = "combine_features" /\ pc = "idle"

\* C8: combine_features given different numbers of text vectors and layout
\* vectors raises (a ValueError) and returns no fused matrix.
C8_UnequalCountsRaise ==
    (CombineReturned /\ Len(text_embeddings) # Len(layout_features))
    => (error # "none" /\ combined = NoMatrix)

C8_Witness ==
    /\ CombineReturned
    /\ text_embeddings = <<<<0>>, <<1>>>>
    /\ layout_features = <<<<1>>>>
    /\ error = "ValueError"
    /\ scaler.n = 1

\* C9 (as claimed): combine_features given a negative text_weight or a
\* negative layout_weight raises instead of returning fused vectors.
C9_NegativeWeightRaises ==
    ( /\ CombineReturned
      /\ \/ (text_weight # NoneArg /\ text_weight[1] < 0)
         \/ (layout_weight # NoneArg /\ layout_weight[1] < 0) )
    => (error # "none" /\ combined = NoMatrix)

\* The weight the caller means: the one supplied, the default when none is.
SuppliedOr(weight, default) == IF weight = NoneArg THEN default ELSE weight[1]

\* C10 (as claimed): for supplied weights >= 0, 0 included, the fused matrix
\* is the standardized text columns times the supplied text_weight followed
\* by the standardized layout columns times the supplied layout_weight; a
\* default is used only for a weight that is not supplied.
C10_SuppliedWeightsAreUsed ==
    ( /\ CombineReturned
      /\ error = "none"
      /\ SuppliedOr(text_weight, TEXT_WEIGHT) >= 0
      /\ SuppliedOr(layout_weight, LAYOUT_WEIGHT) >= 0 )
    => LET T == ScalerTransform(ScalerFit(Unfitted, text_embeddings), text_embeddings)
           L == ScalerTransform(ScalerFit(Unfitted, layout_features), layout_features)
       IN /\ combined.num = [i \in 1..Len(text_embeddings) |-> T.num[i] \o L.num[i]]
          /\ combined.q = T.q \o L.q
          /\ combined.w = [j \in 1..NCols(T) |-> SuppliedOr(text_weight, TEXT_WEIGHT)]
                          \o [j \in 1..NCols(L) |-> SuppliedOr(layout_weight, LAYOUT_WEIGHT)]

\* The layout vectors of the batch process() was given.
BatchLayouts == [i \in 1..Len(doc_features) |-> doc_features[i].layout_features]

SameLengths(vs) == \A i, k \in 1..Len(vs) : Len(vs[i]) = Len(vs[k])

\* C11: every ClusterResult process returns has a fused vector of as many
\* components as its document's text vector and layout vector together, the
\* same number for the whole batch; a batch whose layout vectors differ in
\* length makes process fail in fusion, no fused vector being produced.
C11_FusedLengthOrFusionFails ==
    (op = "process" /\ doc_features # <<>>)
    => /\ ~SameLengths(BatchLayouts)
             => /\ results = <<>> /\ combined = NoMatrix /\ labels = <<>>
                /\ pc \in {"combine", "idle"}
                /\ pc = "idle" => error = "ValueError"
       /\ \A i \in 1..Len(results) :
             LET v == results[i].combined_vector
                 d == Len(text_embeddings[i]) + Len(doc_features[i].layout_features)
             IN Len(v.num) = d /\ Len(v.q) = d /\ Len(v.w) = d
       /\ \A i, k \in 1..Len(results) :
             Len(results[i].combined_vector.num) = Len(results[k].combined_vector.num)
       /\ (ProcessReturned /\ SameLengths(BatchLayouts))
             => (error = "none" /\ Len(results) = Len(doc_features))

C11_Witness ==
    /\ ProcessReturned
    /\ error = "none"
    /\ Len(results) = 3
    /\ \A i \in 1..3 : Len(doc_features[i].layout_features) = 2
    /\ \A i \in 1..3 : Len(results[i].combined_vector.num) = 3

EmbedReturned == op = "compute_text_embeddings" /\ pc = "idle"

\* Empty, or nothing but whitespace.
IsBlank(t) == \A i \in 1..Len(t) : t[i] = " "

\* C14: compute_text_embeddings returns one vector per input text, in input
\* order: the i-th vector is the model's vector for the i-th text, the
\* placeholder standing in for a text that is empty or all whitespace and
\* every other text being handed over unchanged; no text makes the call
\* fail once the model is loaded.
C14_OneVectorPerTextBlankReplaced ==
    EmbedReturned
    => /\ embedding_model = "loaded" => error = "none"
       /\ error = "none"
             => /\ Len(processed_texts) = Len(texts)
                /\ Len(text_embeddings) = Len(texts)
                /\ \A i \in 1..Len(texts) :
                      /\ IsBlank(texts[i]) => processed_texts[i] = EmptyDocument
                      /\ ~IsBlank(texts[i]) => processed_texts[i] = texts[i]
                      /\ text_embeddings[i] = Encode(processed_texts[i])
                      /\ Len(text_embeddings[i]) >= 1

C14_Witness ==
    /\ EmbedReturned
    /\ error = "none"
    /\ texts = << <<" ">>, <<" ", "a">>, <<>> >>
    /\ processed_texts = << EmptyDocument, <<" ", "a">>, EmptyDocument >>
    /\ text_embeddings = << <<0>>, <<2>>, <<0>> >>

\* C15 (as claimed): within one process the embedding model is constructed
\* at most once, whatever clusterers are constructed and whatever is
\* embedded or processed: once a non-empty embedding call has succeeded the
\* number of constructions is 1, never more.
C15_ModelInstantiatedAtMostOnce ==
    (op \in {"compute_text_embeddings", "process"} /\ texts # <<>> /\ error = "none")
    => instantiations = 1

\* C20: when the embedding model cannot be loaded during process on a
\* non-empty batch, process raises the load error and returns no
\* ClusterResult; no text is embedded, nothing is fused and nothing clustered.
C20_LoadFailureAbortsBatch ==
    (op = "process" /\ doc_features # <<>> /\ embedding_model = "None")
    => /\ pc = "idle"
       /\ error = "LoadError"
       /\ results = <<>>
       /\ text_embeddings = <<>>
       /\ combined = NoMatrix
       /\ scaler_reused = FALSE
       /\ labels = <<>>

C20_Witness ==
    /\ ProcessReturned
    /\ Len(doc_features) = 2
    /\ ~model_available
    /\ instantiations = 1
    /\ error = "LoadError"
    /\ results = <<>>

\* combine_features has returned a fused matrix, to its caller or to process.
FusionDone ==
    \/ (CombineReturned /\ error = "none")
    \/ (op = "process" /\ pc \in {"cluster", "build"})
    \/ (ProcessReturned /\ combined # NoMatrix)

\* N * N * variance of column j of rows, 1 standing in for 0.
ColumnQ(rows, j) ==
    LET v == Len(rows) * ColSumSq(rows, j) - ColSum(rows, j) * ColSum(rows, j)
    IN IF v = 0 THEN 1 ELSE v

\* C17: the fused matrix depends on the current batch alone: its text
\* columns are the text vectors standardized with the column means and
\* variances of these text vectors, its layout columns the layout vectors
\* standardized with those of these layout vectors, whatever the scaler was
\* fitted on before; the scaler is left with the statistics of the current
\* layout vectors only.
C17_FusionUsesCurrentBatchStatisticsOnly ==
    FusionDone
    => LET T == text_embeddings
           L == layout_features
           N == Len(T)
           dt == Len(T[1])
           dl == Len(L[1])
       IN /\ combined.num =
                [i \in 1..N |->
                    [j \in 1..dt |-> N * T[i][j] - ColSum(T, j)]
                    \o [j \in 1..dl |-> N * L[i][j] - ColSum(L, j)]]
          /\ combined.q = [j \in 1..dt |-> ColumnQ(T, j)] \o [j \in 1..dl |-> ColumnQ(L, j)]
          /\ scaler.n = N
          /\ scaler.sum = [j \in 1..dl |-> ColSum(L, j)]
          /\ scaler.q = [j \in 1..dl |-> N * ColSumSq(L, j) - ColSum(L, j) * ColSum(L, j)]

C17_Witness ==
    /\ FusionDone
    /\ scaler_reused
    /\ op = "process"
    /\ Len(doc_features) = 3
    /\ combined.q = <<2, 2>>

\* C16 (as claimed): when threads call compute_text_embeddings on one
\* clusterer at the same time, the model is constructed once only, and no
\* thread reaches encode while the model field is unset.
C16_ConcurrentLoadConstructsOnce ==
    /\ instantiations <= 1
    /\ \A t \in Threads :
          /\ thread[t].pc = "encode" => embedding_model = "loaded"
          /\ thread[t].err # "AttributeError"

ExtractReturned == op = "extract" /\ pc = "idle" /\ error = "none"

\* The dark pixels of the page in cell (i, j) of the 3 x 3 grid.
DarkInCell(i, j) ==
    LET ch == page.h \div 3
        cw == page.w \div 3
    IN Cardinality({px \in page.dark : /\ px[1] \div ch = i /\ px[1] < 3 * ch
                                       /\ px[2] \div cw = j /\ px[2] < 3 * cw})

\* C12: the layout vector extract builds has 15 components: the number of
\* blocks, their total area, the 9 grid densities row by row, the mean and
\* the deviation of the vertical centres, the horizontal and the vertical
\* line score.  Without blocks the count and the area are 0, the mean is
\* 0.5 and the deviation 0; with one block the deviation is 0.
C12_LayoutVectorHasFifteenComponents ==
    ExtractReturned
    => LET f == doc[1].layout_features
           b == doc[1].text_blocks
           n == Len(b)
       IN /\ Len(f) = 15
          /\ f[1] = <<n, 1>>
          /\ n = 0 => (f[2] = <<0, 1>> /\ f[12] = <<1, 2>> /\ f[13] = <<0, 1>>)
          /\ n >= 1 =>
                /\ f[2] = << SumSeq([i \in 1..n |-> b[i].width[1] * b[i].height[1]]),
                             page.w * page.h >>
                /\ f[12] = << SumSeq([i \in 1..n |-> 2 * b[i].y[1] + b[i].height[1]]),
                              2 * page.h * n >>
          /\ n = 1 => f[13] = <<0, 1>>
          /\ n >= 2 => f[13][2] > 0 /\ f[13][1] >= 0
          /\ (page.h >= 3 /\ page.w >= 3) =>
                \A i \in 0..2 : \A j \in 0..2 :
                   f[3 + 3 * i + j] = <<DarkInCell(i, j), (page.h \div 3) * (page.w \div 3)>>
          /\ f[14][1] * 100 = Min(CountLines(page.lines, "horizontal"), 100) * f[14][2]
          /\ f[15][1] * 100 = Min(CountLines(page.lines, "vertical"), 100) * f[15][2]

C12_Witness ==
    /\ ExtractReturned
    /\ page.dark = {}
    /\ <<page.h, page.w>> = LineShape
    /\ doc[1].text_blocks = <<>>
    /\ doc[1].layout_features =
          << <<0, 1>>, <<0, 1>> >> \o [k \in 1..9 |-> <<0, 1440>>]
          \o << <<1, 2>>, <<0, 1>>, <<50, 100>>, <<1, 1>> >>

\* A fraction that is a number between 0 and 1.
InUnitInterval(x) == x[2] > 0 /\ 0 <= x[1] /\ x[1] <= x[2]

\* C13 (as claimed): for a readable image of any height and width of at
\* least 1, the 9 grid densities and the 2 line scores of the layout vector
\* are numbers between 0 and 1, each line score being min(count / 100, 1).
C13_DensitiesAndLineScoresInUnitInterval ==
    ExtractReturned
    => LET f == doc[1].layout_features
       IN /\ \A k \in 3..11 : InUnitInterval(f[k])
          /\ InUnitInterval(f[14]) /\ InUnitInterval(f[15])
          /\ f[14][1] * 100 = Min(CountLines(page.lines, "horizontal"), 100) * f[14][2]
          /\ f[15][1] * 100 = Min(CountLines(page.lines, "vertical"), 100) * f[15][2]

\* The image and the OCR of the page both succeed.
FullyExtracted(pg) == pg.readable /\ pg.ocr.ok

\* C18 (as claimed): extract_batch returns the documents of exactly the
\* pages whose image extraction and OCR both succeeded, in input order, a
\* failing page never keeping a later page from being extracted.
C18_FailedDocumentsAreExcluded ==
    op = "extract_batch"
    => LET ok == SelectSeq(pages, FullyExtracted)
       IN /\ error = "none"
          /\ [i \in 1..Len(docs) |-> docs[i].pdf_path] = [i \in 1..Len(ok) |-> ok[i].path]

\* C19: extract on an image cv2.imread cannot read raises (a ValueError)
\* right after imread: no OCR, no block detection and no layout computation
\* has run, and no DocumentFeatures is returned.
C19_UnreadableImageFailsFirst ==
    (op = "extract" /\ ~page.readable)
    => /\ error = "ValueError"
       /\ doc = NoDoc
       /\ steps = <<"imread">>

C19_Witness ==
    /\ op = "extract"
    /\ ~page.readable
    /\ page.ocr = [ok |-> TRUE, text |-> <<" ", "a">>]
    /\ error = "ValueError"
    /\ doc = NoDoc

\* The bounding boxes of the page of at least 0.1% of its area.
LargeEnough(rect) == 1000 * rect.bw * rect.bh >= page.w * page.h

\* How many of the boxes cv2 found are `rect`.
TimesFound(rect) == Cardinality({i \in DOMAIN page.contours : page.contours[i] = rect})

\* C21: the text_blocks extract returns are in non-decreasing order of
\* their normalized y; they are the bounding boxes of at least 0.1% of the
\* page area, each as often as it was found, and none of the smaller ones;
\* x, y, width, height and area of a block are fractions of the page in
\* [0, 1], the area being width times height.
C21_TextBlocksSortedFilteredNormalized ==
    ExtractReturned
    => LET b == doc[1].text_blocks
       IN /\ \A i, k \in DOMAIN b :
                i < k => b[i].y[1] * b[k].y[2] <= b[k].y[1] * b[i].y[2]
          /\ \A rect \in Range(page.contours) :
                Cardinality({i \in DOMAIN b :
                                /\ b[i].x = <<rect.x, page.w>>
                                /\ b[i].y = <<rect.y, page.h>>
                                /\ b[i].width = <<rect.bw, page.w>>
                                /\ b[i].height = <<rect.bh, page.h>>})
                = IF LargeEnough(rect) THEN TimesFound(rect) ELSE 0
          /\ Len(b) = Cardinality({i \in DOMAIN page.contours :
                                      LargeEnough(page.contours[i])})
          /\ \A i \in DOMAIN b :
                /\ InUnitInterval(b[i].x) /\ InUnitInterval(b[i].y)
                /\ InUnitInterval(b[i].width) /\ InUnitInterval(b[i].height)
                /\ InUnitInterval(b[i].area)
                /\ b[i].area[1] * b[i].width[2] * b[i].height[2]
                   = b[i].width[1] * b[i].height[1] * b[i].area[2]

\* A page where a lower box was found before a higher one and a box of one
\* pixel is below the threshold ...
C21_Witness ==
    /\ ExtractReturned
    /\ <<page.h, page.w>> = LargeShape
    /\ page.contours = << [x |-> 0, y |-> page.h - 1, bw |-> page.w, bh |-> 1],
                          [x |-> 0, y |-> 0, bw |-> page.w, bh |-> page.h] >>
    /\ Len(doc[1].text_blocks) = 2
    /\ doc[1].text_blocks[1].y = <<0, page.h>>

\* ... and a page where a box of one pixel is exactly 0.1% of the page.
C21_WitnessThreshold ==
    /\ ExtractReturned
    /\ <<page.h, page.w>> = ThresholdShape
    /\ page.contours = << [x |-> 0, y |-> 0, bw |-> 1, bh |-> 1] >>
    /\ Len(doc[1].text_blocks) = 1

\* C22 (as claimed): run_pipeline clusters with k-means whenever a cluster
\* count is given on the command line, whatever the integer, and with
\* DBSCAN only when none is given.
C22_KMeansWheneverCountGiven ==
    op = "process"
    => EffectiveMethod = (IF n_clusters # NoneArg THEN "kmeans" ELSE "dbscan")

StageOrder ==
    { <<"idle", "combine">>, <<"combine", "cluster">>, <<"cluster", "build">>,
      <<"build", "idle">>, <<"combine", "idle">>, <<"cluster", "idle">> }

\* C24: in a call of process the stages follow one another: the batch is
\* fused only when every text of it has been embedded, it is clustered only
\* when the fused matrix of the whole batch exists, and a ClusterResult is
\* created only when every document has its label.
C24_StagesRunInOrder ==
    [][op' = "process"
        => /\ pc' # pc => <<pc, pc'>> \in StageOrder
           /\ combined' # combined
                 => /\ pc = "combine"
                    /\ doc_features # <<>>
                    /\ Len(text_embeddings) = Len(doc_features)
                    /\ labels = <<>> /\ results = <<>>
           /\ labels' # labels
                 => /\ pc = "cluster"
                    /\ NRows(combined) = Len(doc_features)
                    /\ results = <<>>
           /\ results' # results
                 => /\ pc = "build"
                    /\ Len(labels) = Len(doc_features)]_vars

C24_Witness ==
    /\ op = "process"
    /\ pc = "idle"
    /\ error = "none"
    /\ Len(doc_features) = 2
    /\ Len(text_embeddings) = 2
    /\ NRows(combined) = 2
    /\ Len(labels) = 2
    /\ Len(results) = 2

\* C25 (as claimed): the 9 cells of the grid densities partition the page
\* into cells of one size, every pixel of the page lying in exactly one
\* cell, and each density is the number of dark pixels of its cell over the
\* number of pixels of the cell.
C25_GridCellsPartitionThePage ==
    ExtractReturned
    => LET cells == [k \in 1..9 |->
                        GridCell(page.h, page.w, 3, 3, (k - 1) \div 3, (k - 1) % 3)]
           f == doc[1].layout_features
       IN /\ \A r \in 0..(page.h - 1) : \A c \in 0..(page.w - 1) :
                Cardinality({k \in 1..9 : <<r, c>> \in cells[k]}) = 1
          /\ \A k \in 1..9 : Cardinality(cells[k]) = Cardinality(cells[1])
          /\ \A k \in 1..9 :
                f[2 + k] = <<Cardinality(page.dark \cap cells[k]), Cardinality(cells[k])>>

\* The segment is within 10 degrees of the horizontal, whichever end point
\* comes first ...
NearlyHorizontal(seg) ==
    LET dx == Abs(seg[3] - seg[1])
        dy == Abs(seg[4] - seg[2])
    IN dx > 0 /\ dy * Tan10[2] < Tan10[1] * dx

\* ... or more than 80 degrees away from it.
NearlyVertical(seg) ==
    LET dx == Abs(seg[3] - seg[1])
        dy == Abs(seg[4] - seg[2])
    IN dy > 0 /\ dy * Tan80[2] > Tan80[1] * dx

\* The number of reported segments that satisfy P.
Reported(lines, P(_)) ==
    SumSeq([i \in 1..Len(lines) |-> IF P(lines[i].seg) THEN lines[i].times ELSE 0])

C27_EmptyBatchLeavesClustererAlone ==
    [][(op = "none" /\ op' = "process" /\ doc_features' = <<>>)
        => /\ embedding_model' = embedding_model
           /\ instantiations' = instantiations
           /\ scaler' = scaler
           /\ pc' = "idle"
           /\ error' = "none"]_vars

C27_Witness ==
    /\ op = "process"
    /\ doc_features = <<>>
    /\ pc = "idle"
    /\ embedding_model = "None"
    /\ instantiations = 0
    /\ scaler = Unfitted

\* The OCR of a readable page fails.
OcrFailed(pg) == pg.readable /\ ~pg.ocr.ok

\* C28: a failing OCR does not make extract fail: for a readable image it
\* returns a DocumentFeatures with the text "" and the text blocks and the
\* layout vector the image has whatever the OCR does; extract_batch keeps
\* the document, and its text is embedded as the placeholder of an empty
\* document.
C28_OcrFailureKeepsDocumentWithEmptyText ==
    /\ (op = "extract" /\ OcrFailed(page))
       => /\ error = "none"
          /\ steps = <<"imread", "_extract_text", "_detect_text_blocks",
                       "_extract_layout_features">>
          /\ doc # NoDoc
          /\ doc[1].pdf_path = page.path
          /\ doc[1].text = <<>>
          /\ \A o \in OcrOutcomes :
                LET other == Extract([page EXCEPT !.ocr = o]).doc[1]
                IN /\ doc[1].text_blocks = other.text_blocks
                   /\ doc[1].layout_features = other.layout_features
    /\ (op \in {"extract_batch", "compute_text_embeddings"})
       => \A i \in DOMAIN pages :
             OcrFailed(pages[i])
             => \E k \in DOMAIN docs :
                   /\ docs[k].pdf_path = pages[i].path
                   /\ docs[k].text = <<>>
                   /\ (op = "compute_text_embeddings" /\ error = "none")
                      => /\ Len(text_embeddings) = Len(docs)
                         /\ processed_texts[k] = EmptyDocument
                         /\ text_embeddings[k] = Encode(EmptyDocument)

C28_Witness ==
    /\ op = "compute_text_embeddings"
    /\ error = "none"
    /\ Len(pages) = 2
    /\ ~pages[1].readable
    /\ OcrFailed(pages[2])
    /\ Len(docs) = 1
    /\ processed_texts = <<EmptyDocument>>

\* The number of documents of a cluster.
DocumentsOf(cluster_id) == Cardinality({d \in documents : d.cluster_id = cluster_id})

\* C29 (as claimed): right after update_all_cluster_counts, whatever
\* inserts, deletes and updates came before, every row of clusters has the
\* number of documents of its cluster as document_count, a cluster left
\* without documents included.
C29_CountsAreRightAfterUpdate ==
    op \in {"update_all_cluster_counts", "run_pipeline"}
    => \A c \in clusters : c.document_count = DocumentsOf(c.id)

\* C30: documents holds at most one row per filepath, and the row has the
\* file name, the cluster, the text, the page count and the confidence of
\* the last insert_document for that filepath.
C30_OneRowPerFilepathFromLastInsert ==
    /\ \A d, e \in documents : d.filepath = e.filepath => d = e
    /\ \A d \in documents :
          /\ inserted[d.filepath] # NoneArg
          /\ [filename |-> d.filename, filepath |-> d.filepath,
              cluster_id |-> d.cluster_id, ocr_text |-> d.ocr_text,
              page_count |-> d.page_count, confidence |-> d.confidence]
             = inserted[d.filepath][1]

\* A file inserted again and again, its row being that of the fourth
\* insert, next to a file whose row is that of the second.
C30_Witness ==
    /\ sequence = 4
    /\ Cardinality(documents) = 2
    /\ \E d \in documents :
          /\ d.filepath = 1 /\ d.id = 4 /\ d.cluster_id = 1 /\ d.ocr_text = <<"a">>
    /\ \E d \in documents : d.filepath = 2 /\ d.id = 2

====
